---------------------------- MODULE Spec2Model ----------------------------
(***************************************************************************)
(* rust-feed-ingestor: the entry enrichment-and-persistence pipeline.      *)
(*                                                                         *)
(* The model follows src/src/ingestor.rs (process_entry) and               *)
(* src/src/db_utils.rs (the fetch-state queries).  The store is the two    *)
(* tables archive and current; the fetch state of a guid                   *)
(* (failed_fetch_count, last_fetch_attempt, disabled) is held in columns   *)
(* of that guid's archive row, as the queries of db_utils.rs read and      *)
(* write it.  Every await of process_entry is one step of a task.          *)
(* main's ingestion loop (src/src/main.rs) runs one task per feed in every *)
(* cycle; the normalizer entry_to_feed_item and the validation             *)
(* sanitize_and_validate are operators.                                    *)
(*                                                                         *)
(* Text is a sequence of characters, Option<T> is a sequence of length 0   *)
(* (None) or 1 (Some), time is counted in hours.                           *)
(***************************************************************************)
EXTENDS Integers, Sequences, FiniteSets, TLC

VARIABLES
    archive,     \* table archive: guid -> the rows with that guid, in insertion order
    current,     \* table current: guid -> Option<row> (guid is the conflict target)
    clock,       \* Utc::now(), in hours
    task,        \* per task: the locals of its process_entry call and its position
    faults,      \* store calls that have failed so far
    lastInvoke,  \* observation: guid -> Option<time of the last browser.fetch_and_clean call>
    hist,        \* observation: guid -> the calls made so far, while they form the
                 \* "fetcher always fails, cycles spaced beyond cooldown" scenario
    feed,        \* per configured feed: the locals of its task in main's loop
    cycle,       \* the locals of main's loop: the totals of the cycle, the ticker
    validated    \* an item given to sanitize_and_validate and what it returned

vars ==
    <<archive, current, clock, task, faults, lastInvoke, hist, feed, cycle,
      validated>>

\* the variables of main's loop and of the validation, which process_entry
\* and the store do not touch
orchVars == <<feed, cycle, validated>>

---------------------------------------------------------------------------
(* Bounds of the model *)

NumTasks == 2

MaxClock == 72

TickHours == 12

MaxFaults == 1

(* Program constants *)

Cooldown == 24

---------------------------------------------------------------------------
(* Option<T> and text *)

None == <<>>

Some(x) == <<x>>

IsNone(o) == o = <<>>

Unwrap(o) == o[1]

SP == " "

EmptyText == <<>>

RECURSIVE TrimStart(_)
TrimStart(s) ==
    IF s = <<>> THEN s
    ELSE IF Head(s) = SP THEN TrimStart(Tail(s)) ELSE s

RECURSIVE TrimEnd(_)
TrimEnd(s) ==
    IF s = <<>> THEN s
    ELSE IF s[Len(s)] = SP THEN TrimEnd(SubSeq(s, 1, Len(s) - 1)) ELSE s

Trim(s) == TrimEnd(TrimStart(s))

IsBlankText(s) == Trim(s) = <<>>

\* item.content.as_ref().map_or(true, |c| c.trim().is_empty())
ContentBlank(content) == IF IsNone(content) THEN TRUE ELSE IsBlankText(Unwrap(content))

\* item.content.clone().unwrap_or_default()
UnwrapOrDefault(content) == IF IsNone(content) THEN EmptyText ELSE Unwrap(content)

---------------------------------------------------------------------------
(* The inputs: guids, feed items, results of the live fetcher *)

Guids == {"g1", "g2"}

Tasks == 1 .. NumTasks

\* the feed-supplied content of an entry: absent, whitespace only, a body
FeedContents == {None, Some(<<SP>>), Some(<<"b">>)}

Versions == {1, 2}

\* A FeedItem.  Version v stands for one cycle's values of the fields other
\* than guid and content: v = 1 leaves the optional ones absent.
FeedItem(g, v, c) ==
    [guid             |-> g,
     title            |-> <<"title", v>>,
     link             |-> <<"http://site/", g>>,
     published        |-> IF v = 1 THEN None ELSE Some(v),
     content          |-> c,
     summary          |-> IF v = 1 THEN None ELSE Some(<<"s", v>>),
     author           |-> IF v = 1 THEN None ELSE Some(<<"a", v>>),
     categories       |-> IF v = 1 THEN None ELSE Some({<<"c", v>>}),
     entry_updated    |-> IF v = 1 THEN None ELSE Some(v),
     feed_url         |-> <<"http://feed/", v>>,
     feed_title       |-> IF v = 1 THEN None ELSE Some(<<"ft", v>>),
     feed_description |-> IF v = 1 THEN None ELSE Some(<<"fd", v>>),
     feed_language    |-> IF v = 1 THEN None ELSE Some(<<"fl", v>>),
     feed_icon        |-> IF v = 1 THEN None ELSE Some(<<"fi", v>>),
     feed_updated     |-> IF v = 1 THEN None ELSE Some(v)]

\* g1 is seen with every content and, content absent, with both versions;
\* g2 always comes with a body
Items ==
    {FeedItem("g1", 1, c) : c \in FeedContents}
        \cup {FeedItem("g1", v, None) : v \in Versions}
        \cup {FeedItem("g2", 1, Some(<<"b">>))}

NoItem == FeedItem("", 1, None)

ItemFields ==
    {"guid", "title", "link", "published", "content", "summary", "author",
     "categories", "entry_updated", "feed_url", "feed_title",
     "feed_description", "feed_language", "feed_icon", "feed_updated"}

\* Result<String, _> of browser.fetch_and_clean: Err, Ok(blank), Ok(text)
FetchErr == [ok |-> FALSE, text |-> EmptyText]

FetchOk(s) == [ok |-> TRUE, text |-> s]

FetchResults == {FetchErr, FetchOk(<<SP>>), FetchOk(<<"h">>)}

\* the arm `Ok(content) if !content.trim().is_empty()`
FetchSucceeded(res) == res.ok /\ ~IsBlankText(res.text)

---------------------------------------------------------------------------
(* Lengths of text.  A text is a sequence of characters; so that the limits *)
(* of sanitize_and_validate can be reached, a long run of the ASCII letter  *)
(* "a" is written as one element of the sequence.                           *)

MaxTitleLen == 1024

MaxSummaryLen == 200000

MaxContentLen == 500000

\* runs of "a", one character short of each limit
RunTitle == "a*(MaxTitleLen-1)"

RunSummary == "a*(MaxSummaryLen-1)"

RunContent == "a*(MaxContentLen-1)"

\* a character whose UTF-8 encoding takes two bytes
TwoByteChar == "U+00E9"

\* the characters an element of a text stands for
Chars(c) ==
    CASE c = RunTitle -> MaxTitleLen - 1
      [] c = RunSummary -> MaxSummaryLen - 1
      [] c = RunContent -> MaxContentLen - 1
      [] OTHER -> 1

\* the bytes of the UTF-8 encoding of an element of a text
Utf8Len(c) == IF c = TwoByteChar THEN 2 ELSE Chars(c)

\* s.chars().count()
RECURSIVE CharCount(_)
CharCount(s) == IF s = <<>> THEN 0 ELSE Chars(Head(s)) + CharCount(Tail(s))

\* str::len: the length of the text in bytes
RECURSIVE StrLen(_)
StrLen(s) == IF s = <<>> THEN 0 ELSE Utf8Len(Head(s)) + StrLen(Tail(s))

\* item.summary.as_deref().map(str::trim)
TrimOption(o) == IF IsNone(o) THEN None ELSE Some(Trim(Unwrap(o)))

---------------------------------------------------------------------------
(* URLs.  A URL is a text whose first element is its scheme and host.       *)

Origins == {"http://site/", "http://feed/"}

\* a scheme followed by a host that does not parse
BadOrigin == "http://["

\* Url::parse(s).is_ok(): s is an absolute URL.  A reference without a scheme
\* is Err(RelativeUrlWithoutBase), a malformed host is an Err too.
UrlParseOk(s) == s # <<>> /\ s[1] \in Origins

\* Url::to_string percent-encodes what a URL cannot hold
PercentEncode(c) == IF c = "not a url" THEN "not%20a%20url" ELSE c

\* base.join(reference).map(|u| u.to_string())
UrlJoin(base, reference) ==
    IF reference = <<>> THEN [ok |-> TRUE, url |-> base]
    ELSE IF reference[1] = BadOrigin THEN [ok |-> FALSE, url |-> EmptyText]
    ELSE IF UrlParseOk(reference) THEN [ok |-> TRUE, url |-> reference]
    ELSE [ok |-> TRUE,
          url |-> <<base[1]>> \o
                  [i \in 1 .. Len(reference) |-> PercentEncode(reference[i])]]

---------------------------------------------------------------------------
(* The parsed feed (feed_rs::model) and the normalizer entry_to_feed_item   *)

\* an Entry; the fields entry_to_feed_item reads
Entry(id, title, links, content, summary) ==
    [id         |-> id,
     title      |-> title,       \* Option<Text>
     links      |-> links,       \* Vec<Link>, by href
     published  |-> None,
     content    |-> content,     \* Option<Content>, Content = [body: Option<String>]
     summary    |-> summary,     \* Option<Text>
     authors    |-> <<>>,
     categories |-> <<>>,
     updated    |-> None]

Content(body) == [body |-> body]

\* a Feed with the given entries
FeedStruct(entries) ==
    [title       |-> Some(<<"F">>),
     description |-> None,
     language    |-> None,
     icon        |-> None,
     updated     |-> None,
     entries     |-> entries]

\* entry.links.first().map(|l| l.href.clone()).unwrap_or_default()
LinkRaw(entry) == IF entry.links = <<>> THEN EmptyText ELSE entry.links[1]

\* the link of the FeedItem: link_raw when it parses, else link_raw joined
\* to the feed URL, else link_raw
ResolveLink(link_raw, feed_url) ==
    IF UrlParseOk(link_raw) THEN link_raw
    ELSE IF UrlParseOk(feed_url) /\ UrlJoin(feed_url, link_raw).ok
         THEN UrlJoin(feed_url, link_raw).url
         ELSE link_raw

entry_to_feed_item(entry, fd, feed_url) ==
    [guid             |-> entry.id,
     title            |-> UnwrapOrDefault(entry.title),
     link             |-> ResolveLink(LinkRaw(entry), feed_url),
     published        |-> entry.published,
     content          |-> IF IsNone(entry.content) THEN None
                          ELSE Unwrap(entry.content).body,
     summary          |-> entry.summary,
     author           |-> IF entry.authors = <<>> THEN None
                          ELSE Some(entry.authors[1]),
     categories       |-> IF entry.categories = <<>> THEN None
                          ELSE Some(entry.categories),
     entry_updated    |-> entry.updated,
     feed_url         |-> feed_url,
     feed_title       |-> fd.title,
     feed_description |-> fd.description,
     feed_language    |-> fd.language,
     feed_icon        |-> fd.icon,
     feed_updated     |-> fd.updated]

---------------------------------------------------------------------------
(* sanitize_and_validate *)

\* markup ammonia::clean removes
Unsafe == {"<script>"}

\* ammonia::clean(s).to_string()
clean(s) == SelectSeq(s, LAMBDA c : c \notin Unsafe)

\* summary.map(|s| clean(s).to_string())
CleanOption(o) == IF IsNone(o) THEN None ELSE Some(clean(Unwrap(o)))

\* the four checks of sanitize_and_validate, in its order: true when the item
\* is rejected
Rejected(title, summary, content, link) ==
    \/ title = EmptyText \/ StrLen(title) > MaxTitleLen
    \/ (~IsNone(summary) /\ StrLen(Unwrap(summary)) > MaxSummaryLen)
    \/ (~IsNone(content) /\ StrLen(Unwrap(content)) > MaxContentLen)
    \/ ~UrlParseOk(link)

sanitize_and_validate(item) ==
    LET title == Trim(item.title)
        summary == TrimOption(item.summary)
        content == TrimOption(item.content)
    IN  IF Rejected(title, summary, content, item.link) THEN None
        ELSE Some([item EXCEPT
                !.title = clean(title),
                !.summary = CleanOption(summary),
                !.content = CleanOption(content)])

---------------------------------------------------------------------------
(* The store *)

\* What a column the INSERT does not name gets
ColumnDefaults ==
    [failed_fetch_count |-> 0, last_fetch_attempt |-> None, disabled |-> FALSE]

\* INSERT INTO archive (...) VALUES ($1 .. $16)
NewArchiveRow(item, full_content) ==
    [guid               |-> item.guid,
     title              |-> item.title,
     link               |-> item.link,
     published          |-> item.published,
     content            |-> item.content,
     full_content       |-> full_content,
     summary            |-> item.summary,
     author             |-> item.author,
     categories         |-> item.categories,
     entry_updated      |-> item.entry_updated,
     feed_url           |-> item.feed_url,
     feed_title         |-> item.feed_title,
     feed_description   |-> item.feed_description,
     feed_language      |-> item.feed_language,
     feed_icon          |-> item.feed_icon,
     feed_updated       |-> item.feed_updated,
     failed_fetch_count |-> ColumnDefaults.failed_fetch_count,
     last_fetch_attempt |-> ColumnDefaults.last_fetch_attempt,
     disabled           |-> ColumnDefaults.disabled]

\* the row of INSERT INTO current (...) VALUES ($1 .. $16)
NewCurrentRow(item, full_content) ==
    [guid             |-> item.guid,
     title            |-> item.title,
     link             |-> item.link,
     published        |-> item.published,
     content          |-> item.content,
     full_content     |-> full_content,
     summary          |-> item.summary,
     author           |-> item.author,
     categories       |-> item.categories,
     entry_updated    |-> item.entry_updated,
     feed_url         |-> item.feed_url,
     feed_title       |-> item.feed_title,
     feed_description |-> item.feed_description,
     feed_language    |-> item.feed_language,
     feed_icon        |-> item.feed_icon,
     feed_updated     |-> item.feed_updated]

\* ON CONFLICT (guid) DO UPDATE SET <column> = EXCLUDED.<column>, ...
UpsertMerged(old, new) ==
    [old EXCEPT !.title = new.title,
                !.link = new.link,
                !.published = new.published,
                !.content = new.content,
                !.summary = new.summary,
                !.author = new.author,
                !.categories = new.categories,
                !.entry_updated = new.entry_updated,
                !.feed_url = new.feed_url,
                !.feed_title = new.feed_title,
                !.feed_description = new.feed_description,
                !.feed_language = new.feed_language,
                !.feed_icon = new.feed_icon,
                !.feed_updated = new.feed_updated]

OnConflictUpdate(old, new) ==
    [old EXCEPT !.title = new.title,
                !.link = new.link,
                !.published = new.published,
                !.content = new.content,
                !.full_content = new.full_content,
                !.summary = new.summary,
                !.author = new.author,
                !.categories = new.categories,
                !.entry_updated = new.entry_updated,
                !.feed_url = new.feed_url,
                !.feed_title = new.feed_title,
                !.feed_description = new.feed_description,
                !.feed_language = new.feed_language,
                !.feed_icon = new.feed_icon,
                !.feed_updated = new.feed_updated]

UpdateCurrentOnly(cur, item, full_content) ==
    [cur EXCEPT ![item.guid] =
        IF IsNone(cur[item.guid])
        THEN None
        ELSE Some(NewCurrentRow(item, full_content))]

\* INSERT INTO current ... ON CONFLICT (guid) DO UPDATE ...: the table after it
UpsertCurrent(cur, item, full_content) ==
    [cur EXCEPT ![item.guid] =
        IF IsNone(cur[item.guid])
        THEN Some(NewCurrentRow(item, full_content))
        ELSE Some(OnConflictUpdate(Unwrap(cur[item.guid]),
                                   NewCurrentRow(item, full_content)))]

\* SELECT failed_fetch_count FROM archive WHERE guid = $1, fetch_optional,
\* then rec.unwrap_or(0)
get_failed_fetch_count(arch, g) ==
    IF arch[g] = <<>> THEN 0 ELSE arch[g][1].failed_fetch_count

\* SELECT last_fetch_attempt FROM archive WHERE guid = $1, fetch_optional,
\* then rec.flatten()
get_last_fetch_attempt(arch, g) ==
    IF arch[g] = <<>> THEN None ELSE arch[g][1].last_fetch_attempt

\* UPDATE archive SET disabled = true WHERE guid = $1.  No code calls it.
disable_feed(arch, g) ==
    [arch EXCEPT ![g] =
        [i \in DOMAIN arch[g] |-> [arch[g][i] EXCEPT !.disabled = TRUE]]]

UpdateCountAndDisable(arch, g, count) ==
    IF count > 0
    THEN disable_feed(
            [arch EXCEPT ![g] =
                [i \in DOMAIN arch[g] |->
                    [arch[g][i] EXCEPT !.failed_fetch_count = count]]], g)
    ELSE [arch EXCEPT ![g] =
            [i \in DOMAIN arch[g] |->
                [arch[g][i] EXCEPT !.failed_fetch_count = count]]]

UpdateCountOfAllGuids(arch, g, count) ==
    [h \in DOMAIN arch |->
        [i \in DOMAIN arch[h] |-> [arch[h][i] EXCEPT !.failed_fetch_count = count]]]

UpdateCountAddsOne(arch, g, count) ==
    [arch EXCEPT ![g] =
        [i \in DOMAIN arch[g] |->
            [arch[g][i] EXCEPT !.failed_fetch_count = @ + 1]]]

\* UPDATE archive SET failed_fetch_count = $1 WHERE guid = $2
update_failed_fetch_count(arch, g, count) ==
    [arch EXCEPT ![g] =
        [i \in DOMAIN arch[g] |-> [arch[g][i] EXCEPT !.failed_fetch_count = count]]]

\* UPDATE archive SET last_fetch_attempt = $1 WHERE guid = $2
update_last_fetch_attempt(arch, g, timestamp) ==
    [arch EXCEPT ![g] =
        [i \in DOMAIN arch[g] |->
            [arch[g][i] EXCEPT !.last_fetch_attempt = Some(timestamp)]]]

ExistsNever(arch, g) == FALSE

\* SELECT EXISTS(SELECT 1 FROM archive WHERE guid = $1)
ArchiveExists(arch, g) == arch[g] # <<>>

\* INSERT INTO archive ...: the table after it
InsertArchive(arch, item, full_content) ==
    [arch EXCEPT ![item.guid] = Append(@, NewArchiveRow(item, full_content))]

---------------------------------------------------------------------------
(* process_entry *)

ShouldFetchIgnoringContent(item, last_attempt_opt, now) ==
    IsNone(last_attempt_opt) \/ now - Unwrap(last_attempt_opt) > Cooldown

ShouldFetchWithinCooldown(item, last_attempt_opt, now) ==
    /\ ContentBlank(item.content)
    /\ (IsNone(last_attempt_opt) \/ now - Unwrap(last_attempt_opt) < Cooldown)

\* should_fetch_live
ShouldFetchLive(item, last_attempt_opt, now) ==
    /\ ContentBlank(item.content)
    /\ (IsNone(last_attempt_opt) \/ now - Unwrap(last_attempt_opt) > Cooldown)

UpsertWithoutInsert(exists) == "upsert"

UpsertOnlyWhenNew(exists) == IF exists THEN "done" ELSE "insert"

InsertAlways(exists) == "insert"

\* `if !exists.0 { INSERT INTO archive }`, then the upsert: the statement
\* that follows the existence check
AfterExistsCheck(exists) == IF exists THEN "upsert" ELSE "insert"

Propagated(ok, next) == IF ok THEN next ELSE "done"

\* `.await.unwrap_or(())` on a fetch-state write: the call goes on to `next`
\* whether the write returned Ok or Err
UnwrapOrUnit(ok, next) == next

\* the store calls of process_entry whose error is swallowed
FetchStateCalls ==
    {"get_count", "get_last", "update_last", "reset_count", "incr_count"}

IdleTask ==
    [pc              |-> "idle",
     item            |-> NoItem,
     failed_count    |-> 0,
     last_attempt_opt |-> None,
     now             |-> 0,
     should_fetch_live |-> FALSE,
     fetched_content |-> EmptyText,
     exists          |-> FALSE,
     result          |-> "none",
     \* observations of the call
     fetches         |-> 0,       \* calls of browser.fetch_and_clean
     fetch_ok        |-> FALSE,   \* the live fetch returned non-blank text
     state_writes    |-> 0,       \* fetch-state UPDATEs issued
     upsert_executed |-> FALSE,   \* the current upsert was executed
     inserted        |-> FALSE,   \* the archive insert was executed
     prior_invoke    |-> None,    \* lastInvoke of the guid when the call began
     prior_current   |-> None,    \* the guid's current row when the call began
     failed_calls    |-> {}]      \* the store calls of this call that returned Err

Idle(t) == task[t].pc = "idle"

Sequential == \A t \in Tasks : Idle(t)

\* with cycles one after the other and one feed, every call is the same task's
FirstTask == CHOOSE t \in Tasks : \A u \in Tasks : t <= u

Guid(t) == task[t].item.guid

\* settings.feeds: feed f is fetched and processed by task f
Feeds == Tasks

FeedUrl(f) == <<"http://feed/", ToString(f)>>

\* the task of a feed before main's loop has pushed it
IdleFeed ==
    [pc          |-> "idle",
     feed_struct |-> FeedStruct(<<>>),
     idx         |-> 1,         \* position of `for entry in &feed_struct.entries`
     count       |-> 0,
     success     |-> 0,
     skipped     |-> 0,
     errors      |-> 0,
     ret         |-> <<0, 0>>,  \* the (count, errors) the task returns
     \* observations of the task
     fetch_failed |-> FALSE,    \* fetch_feed returned Err
     validations |-> <<>>,      \* positions given to sanitize_and_validate, in order
     passed      |-> <<>>]      \* positions given to process_entry, in order

\* main's loop before its first cycle; interval() has just been created and
\* its first tick is due at once
IdleCycle ==
    [running       |-> FALSE,
     n             |-> 0,       \* cycles started
     total_entries |-> 0,
     total_errors  |-> 0,
     next_tick     |-> 0,       \* when the next tick of the ticker is due
     \* observations of the loop
     started_at    |-> 0,       \* the clock when the last cycle started
     finished_at   |-> None]    \* the clock when the last cycle was complete

NoValidation == [pc |-> "none", item |-> NoItem, out |-> None]

InitProgram ==
    /\ archive = [g \in Guids |-> <<>>]
    /\ current = [g \in Guids |-> None]
    /\ clock = 0
    /\ faults = 0
    /\ task = [t \in Tasks |-> IdleTask]
    /\ lastInvoke = [g \in Guids |-> None]
    /\ hist = [g \in Guids |-> [ok |-> TRUE, n |-> 0, last |-> None]]
    /\ feed = [f \in Feeds |-> IdleFeed]
    /\ cycle = IdleCycle

Init ==
    /\ InitProgram
    /\ validated = NoValidation

BrokenHist == [ok |-> FALSE, n |-> 0, last |-> None]

\* the scenario of hist goes on with a call at time `at` for item `item`
HistAfterCall(h, item, at) ==
    IF /\ h.ok
       /\ ContentBlank(item.content)
       /\ (IsNone(h.last) \/ at - Unwrap(h.last) > Cooldown)
    THEN [ok |-> TRUE, n |-> h.n + 1, last |-> Some(at)]
    ELSE BrokenHist

\* A call of the store returns: Ok, or an sqlx::Error
StoreCall(ok) ==
    IF ok THEN faults' = faults
    ELSE faults < MaxFaults /\ faults' = faults + 1

\* The passage of time between two cycles.  One tick is TickHours hours, far
\* longer than a call of process_entry, so the clock moves between calls only.
Tick ==
    /\ Sequential
    /\ clock + TickHours <= MaxClock
    /\ clock' = clock + TickHours
    /\ UNCHANGED <<faults, archive, current, task, lastInvoke, hist>>
    /\ UNCHANGED orchVars

\* process_entry(pool, item, browser) is called
process_entry_call(t, item) ==
    /\ Idle(t)
    /\ task' = [task EXCEPT ![t] =
            [IdleTask EXCEPT !.pc = "get_count",
                             !.item = item,
                             !.prior_invoke = lastInvoke[item.guid],
                             !.prior_current = current[item.guid]]]
    /\ hist' = [hist EXCEPT ![item.guid] = HistAfterCall(@, item, clock)]
    /\ UNCHANGED <<faults, archive, current, clock, lastInvoke>>

\* a call of process_entry on its own, main's loop left aside
BeginEntry(t, item) ==
    /\ process_entry_call(t, item)
    /\ UNCHANGED orchVars

\* let failed_count = get_failed_fetch_count(pool, &item.guid).await.unwrap_or(0)
GetFailedFetchCount(t, ok) ==
    /\ task[t].pc = "get_count"
    /\ StoreCall(ok)
    /\ task' = [task EXCEPT
            ![t].failed_calls = IF ok THEN @ ELSE @ \cup {"get_count"},
            ![t].failed_count =
                IF ok THEN get_failed_fetch_count(archive, Guid(t)) ELSE 0,
            ![t].pc = "get_last"]
    /\ UNCHANGED <<archive, current, clock, lastInvoke, hist>>
    /\ UNCHANGED orchVars

\* let last_attempt_opt = get_last_fetch_attempt(..).await.unwrap_or(None);
\* let now = Utc::now(); let should_fetch_live = ...; and the else branch of
\* `if should_fetch_live`
GetLastFetchAttempt(t, ok) ==
    /\ task[t].pc = "get_last"
    /\ StoreCall(ok)
    /\ LET last == IF ok THEN get_last_fetch_attempt(archive, Guid(t)) ELSE None
           should == ShouldFetchLive(task[t].item, last, clock)
       IN task' = [task EXCEPT
            ![t].failed_calls = IF ok THEN @ ELSE @ \cup {"get_last"},
            ![t].last_attempt_opt = last,
            ![t].now = clock,
            ![t].should_fetch_live = should,
            ![t].fetched_content =
                IF should THEN EmptyText
                ELSE UnwrapOrDefault(task[t].item.content),
            ![t].pc = IF should THEN "update_last" ELSE "exists"]
    /\ UNCHANGED <<archive, current, clock, lastInvoke, hist>>
    /\ UNCHANGED orchVars

\* update_last_fetch_attempt(pool, &item.guid, now).await.unwrap_or(())
UpdateLastFetchAttempt(t, ok) ==
    /\ task[t].pc = "update_last"
    /\ StoreCall(ok)
    /\ archive' =
        IF ok THEN update_last_fetch_attempt(archive, Guid(t), task[t].now)
        ELSE archive
    /\ task' = [task EXCEPT
            ![t].failed_calls = IF ok THEN @ ELSE @ \cup {"update_last"},
            ![t].pc = UnwrapOrUnit(ok, "fetch"),
            ![t].state_writes = @ + 1]
    /\ UNCHANGED <<current, clock, lastInvoke, hist>>
    /\ UNCHANGED orchVars

\* match browser.fetch_and_clean(&item.link).await
FetchAndClean(t, res) ==
    /\ task[t].pc = "fetch"
    /\ lastInvoke' = [lastInvoke EXCEPT ![Guid(t)] = Some(clock)]
    /\ task' = [task EXCEPT
            ![t].fetches = @ + 1,
            ![t].fetch_ok = FetchSucceeded(res),
            ![t].fetched_content =
                IF FetchSucceeded(res) THEN res.text ELSE EmptyText,
            ![t].pc = IF FetchSucceeded(res) THEN "reset_count" ELSE "incr_count"]
    /\ hist' = [hist EXCEPT ![Guid(t)] =
            IF FetchSucceeded(res) THEN BrokenHist ELSE @]
    /\ UNCHANGED <<faults, archive, current, clock>>
    /\ UNCHANGED orchVars

\* Ok(content) if !content.trim().is_empty() =>
\*     update_failed_fetch_count(pool, &item.guid, 0).await.unwrap_or(()); content
ResetFailedFetchCount(t, ok) ==
    /\ task[t].pc = "reset_count"
    /\ StoreCall(ok)
    /\ archive' =
        IF ok THEN update_failed_fetch_count(archive, Guid(t), 0) ELSE archive
    /\ task' = [task EXCEPT
            ![t].failed_calls = IF ok THEN @ ELSE @ \cup {"reset_count"},
            ![t].pc = UnwrapOrUnit(ok, "exists"),
            ![t].state_writes = @ + 1]
    /\ UNCHANGED <<current, clock, lastInvoke, hist>>
    /\ UNCHANGED orchVars

\* Ok(_) | Err(_) => update_failed_fetch_count(.., failed_count + 1); and the
\* fallback item.content.clone().unwrap_or_default()
IncrFailedFetchCount(t, ok) ==
    /\ task[t].pc = "incr_count"
    /\ StoreCall(ok)
    /\ archive' =
        IF ok
        THEN update_failed_fetch_count(archive, Guid(t), task[t].failed_count + 1)
        ELSE archive
    /\ task' = [task EXCEPT
            ![t].failed_calls = IF ok THEN @ ELSE @ \cup {"incr_count"},
            ![t].fetched_content = UnwrapOrDefault(task[t].item.content),
            ![t].pc = UnwrapOrUnit(ok, "exists"),
            ![t].state_writes = @ + 1]
    /\ UNCHANGED <<current, clock, lastInvoke, hist>>
    /\ UNCHANGED orchVars

ErrorDropped(ok, next) == next

\* `.await?` on the existence check and on the archive insert: on Err the
\* call returns the error at once, on Ok it goes on to `next`
QuestionMark(ok, next) == IF ok THEN next ELSE "done"

\* let exists = sqlx::query_as("SELECT EXISTS(...)").fetch_one(pool).await?
ExistsCheck(t, ok) ==
    /\ task[t].pc = "exists"
    /\ StoreCall(ok)
    /\ task' = [task EXCEPT
            ![t].failed_calls = IF ok THEN @ ELSE @ \cup {"exists"},
            ![t].exists = ok /\ ArchiveExists(archive, Guid(t)),
            ![t].result = IF ok THEN "none" ELSE "Err",
            ![t].pc = QuestionMark(ok,
                        AfterExistsCheck(ArchiveExists(archive, Guid(t))))]
    /\ UNCHANGED <<archive, current, clock, lastInvoke, hist>>
    /\ UNCHANGED orchVars

\* if !exists.0 { sqlx::query("INSERT INTO archive ...").execute(pool).await? }
InsertArchiveRow(t, ok) ==
    /\ task[t].pc = "insert"
    /\ StoreCall(ok)
    /\ archive' =
        IF ok THEN InsertArchive(archive, task[t].item, task[t].fetched_content)
        ELSE archive
    /\ task' = [task EXCEPT
            ![t].failed_calls = IF ok THEN @ ELSE @ \cup {"insert"},
            ![t].inserted = ok,
            ![t].result = IF ok THEN "none" ELSE "Err",
            ![t].pc = QuestionMark(ok, "upsert")]
    /\ UNCHANGED <<current, clock, lastInvoke, hist>>
    /\ UNCHANGED orchVars

\* sqlx::query("INSERT INTO current ... ON CONFLICT ...").execute(pool).await?; Ok(())
UpsertCurrentRow(t, ok) ==
    /\ task[t].pc = "upsert"
    /\ StoreCall(ok)
    /\ current' =
        IF ok THEN UpsertCurrent(current, task[t].item, task[t].fetched_content)
        ELSE current
    /\ task' = [task EXCEPT
            ![t].failed_calls = IF ok THEN @ ELSE @ \cup {"upsert"},
            ![t].upsert_executed = TRUE,
            ![t].result = IF ok THEN "Ok" ELSE "Err",
            ![t].pc = "done"]
    /\ UNCHANGED <<archive, clock, lastInvoke, hist>>
    /\ UNCHANGED orchVars

\* process_entry has returned Ok(()) or Err to its caller
process_entry_return(t) ==
    /\ task[t].pc = "done"
    /\ task' = [task EXCEPT ![t] = IdleTask]
    /\ UNCHANGED <<faults, archive, current, clock, lastInvoke, hist>>

\* a call of process_entry on its own returns
Return(t) ==
    /\ process_entry_return(t)
    /\ UNCHANGED orchVars

---------------------------------------------------------------------------
(* Specifications *)

\* Cycles one after the other, every store call succeeds
Next ==
    \/ Tick
    \/ \E item \in Items : Sequential /\ BeginEntry(FirstTask, item)
    \/ \E t \in Tasks : GetFailedFetchCount(t, TRUE)
    \/ \E t \in Tasks : GetLastFetchAttempt(t, TRUE)
    \/ \E t \in Tasks : UpdateLastFetchAttempt(t, TRUE)
    \/ \E t \in Tasks, res \in FetchResults : FetchAndClean(t, res)
    \/ \E t \in Tasks : ResetFailedFetchCount(t, TRUE)
    \/ \E t \in Tasks : IncrFailedFetchCount(t, TRUE)
    \/ \E t \in Tasks : ExistsCheck(t, TRUE)
    \/ \E t \in Tasks : InsertArchiveRow(t, TRUE)
    \/ \E t \in Tasks : UpsertCurrentRow(t, TRUE)
    \/ \E t \in Tasks : Return(t)

Spec == Init /\ [][Next]_vars

\* Cycles one after the other, any store call may fail
NextFaults ==
    \/ Tick
    \/ \E item \in Items : Sequential /\ BeginEntry(FirstTask, item)
    \/ \E t \in Tasks, ok \in BOOLEAN : GetFailedFetchCount(t, ok)
    \/ \E t \in Tasks, ok \in BOOLEAN : GetLastFetchAttempt(t, ok)
    \/ \E t \in Tasks, ok \in BOOLEAN : UpdateLastFetchAttempt(t, ok)
    \/ \E t \in Tasks, res \in FetchResults : FetchAndClean(t, res)
    \/ \E t \in Tasks, ok \in BOOLEAN : ResetFailedFetchCount(t, ok)
    \/ \E t \in Tasks, ok \in BOOLEAN : IncrFailedFetchCount(t, ok)
    \/ \E t \in Tasks, ok \in BOOLEAN : ExistsCheck(t, ok)
    \/ \E t \in Tasks, ok \in BOOLEAN : InsertArchiveRow(t, ok)
    \/ \E t \in Tasks, ok \in BOOLEAN : UpsertCurrentRow(t, ok)
    \/ \E t \in Tasks : Return(t)

SpecFaults == Init /\ [][NextFaults]_vars

\* The process dies in the middle of a call and is started again: the locals
\* of every task are gone, the store is as the last completed statement left it
Crash ==
    /\ \E t \in Tasks : task[t].pc \notin {"idle", "done"}
    /\ task' = [t \in Tasks |-> IdleTask]
    /\ UNCHANGED <<archive, current, clock, faults, lastInvoke, hist>>
    /\ UNCHANGED orchVars

\* Cycles one after the other, every store call succeeds, the process may crash
NextCrash ==
    \/ Next
    \/ Crash

SpecCrash == Init /\ [][NextCrash]_vars

\* Calls one after the other at one instant; any store call may fail and the
\* process may crash
NextCrashFaults ==
    \/ \E item \in Items : Sequential /\ BeginEntry(FirstTask, item)
    \/ \E t \in Tasks, ok \in BOOLEAN : GetFailedFetchCount(t, ok)
    \/ \E t \in Tasks, ok \in BOOLEAN : GetLastFetchAttempt(t, ok)
    \/ \E t \in Tasks, ok \in BOOLEAN : UpdateLastFetchAttempt(t, ok)
    \/ \E t \in Tasks, res \in FetchResults : FetchAndClean(t, res)
    \/ \E t \in Tasks, ok \in BOOLEAN : ResetFailedFetchCount(t, ok)
    \/ \E t \in Tasks, ok \in BOOLEAN : IncrFailedFetchCount(t, ok)
    \/ \E t \in Tasks, ok \in BOOLEAN : ExistsCheck(t, ok)
    \/ \E t \in Tasks, ok \in BOOLEAN : InsertArchiveRow(t, ok)
    \/ \E t \in Tasks, ok \in BOOLEAN : UpsertCurrentRow(t, ok)
    \/ \E t \in Tasks : Return(t)
    \/ Crash

SpecCrashFaults == Init /\ [][NextCrashFaults]_vars

\* Two feed tasks of one cycle, polled concurrently by FuturesUnordered: their
\* calls of process_entry interleave at every await
ConcTasks == {FirstTask, FirstTask + 1}

\* both feeds carry the entry g1 without content, possibly with other values
ConcItems == {item \in Items : item.guid = "g1" /\ IsNone(item.content)}

\* INSERT INTO archive for a guid that another task has inserted since the
\* existence check, when the table holds guid unique: the statement fails and
\* `?` returns the error.  (Without the constraint InsertArchiveRow adds a
\* second row.)
InsertConflict(t) ==
    /\ task[t].pc = "insert"
    /\ archive[Guid(t)] # <<>>
    /\ task' = [task EXCEPT
            ![t].failed_calls = @ \cup {"insert"},
            ![t].result = "Err",
            ![t].pc = "done"]
    /\ UNCHANGED <<archive, current, clock, faults, lastInvoke, hist>>
    /\ UNCHANGED orchVars

NextConc ==
    \/ \E t \in ConcTasks, item \in ConcItems : BeginEntry(t, item)
    \/ \E t \in ConcTasks : GetFailedFetchCount(t, TRUE)
    \/ \E t \in ConcTasks : GetLastFetchAttempt(t, TRUE)
    \/ \E t \in ConcTasks : UpdateLastFetchAttempt(t, TRUE)
    \/ \E t \in ConcTasks, res \in FetchResults : FetchAndClean(t, res)
    \/ \E t \in ConcTasks : ResetFailedFetchCount(t, TRUE)
    \/ \E t \in ConcTasks : IncrFailedFetchCount(t, TRUE)
    \/ \E t \in ConcTasks : ExistsCheck(t, TRUE)
    \/ \E t \in ConcTasks : InsertArchiveRow(t, TRUE)
    \/ \E t \in ConcTasks : InsertConflict(t)
    \/ \E t \in ConcTasks : UpsertCurrentRow(t, TRUE)
    \/ \E t \in ConcTasks : Return(t)

SpecConc == Init /\ [][NextConc]_vars

---------------------------------------------------------------------------
(* main's loop: one task per feed in every cycle (main.rs 107-210)          *)

MaxCycles == 1

IngestInterval == 12

\* the variables process_entry and the store work on
procVars == <<archive, current, clock, task, faults, lastInvoke, hist>>

AbsLink(g) == <<"http://site/", g>>

\* entries a feed can carry: two valid ones (one without content, one whose
\* title and link need normalizing) and four that validation rejects
GoodBlank == Entry("g1", Some(<<"t">>), <<AbsLink("g1")>>, None, None)

GoodBody ==
    Entry("g2", Some(<<SP, "<script>", "t", SP>>), << <<"/p">> >>,
          Some(Content(Some(<<"b">>))), Some(<<"s">>))

NoTitle ==
    Entry("g1", None, <<AbsLink("g1")>>, Some(Content(Some(<<"b">>))), None)

BadLink ==
    Entry("g2", Some(<<"t">>), << <<BadOrigin>> >>,
          Some(Content(Some(<<"b">>))), None)

LongTitle ==
    Entry("g2", Some(<<RunTitle, "a", "a">>), <<AbsLink("g2")>>, None, None)

LongSummary ==
    Entry("g1", Some(<<"t">>), <<AbsLink("g1")>>, None,
          Some(<<RunSummary, "a", "a">>))

ParsedFeeds ==
    {FeedStruct(<<NoTitle, GoodBlank>>),
     FeedStruct(<<GoodBody, BadLink>>),
     FeedStruct(<<GoodBlank, LongTitle, GoodBody>>),
     FeedStruct(<<LongSummary>>)}

\* Result<Feed, IngestError> of fetch_feed
FetchFeedErr == [ok |-> FALSE, parsed |-> FeedStruct(<<>>)]

FetchFeedOk(fs) == [ok |-> TRUE, parsed |-> fs]

FetchFeedResults == {FetchFeedErr} \cup {FetchFeedOk(fs) : fs \in ParsedFeeds}

Entries(f) == feed[f].feed_struct.entries

\* the FeedItem of the entry the loop of feed f stands at
ItemAt(f) ==
    entry_to_feed_item(Entries(f)[feed[f].idx], feed[f].feed_struct, FeedUrl(f))

Unvalidated(item) == Some(item)

\* `match sanitize_and_validate(&feed_item)`: Some(safe_item) goes to
\* process_entry, None is skipped
ValidateEntry(item) == sanitize_and_validate(item)

StopAtFailure(outcome, idx, n) == IF outcome = "Ok" THEN idx + 1 ELSE n + 1

\* `for entry in &feed_struct.entries`: after an entry, whatever its outcome
\* ("Ok", "Err", "skipped"), the loop goes on with the next one
NextIndex(outcome, idx, n) == idx + 1

FeedFailedUncounted ==
    [IdleFeed EXCEPT !.pc = "returned", !.ret = <<0, 0>>, !.fetch_failed = TRUE]

\* the task of a feed whose fetch failed: it returns (feed_name, dur, 0, 1)
FeedFailed ==
    [IdleFeed EXCEPT !.pc = "returned", !.ret = <<0, 1>>, !.fetch_failed = TRUE]

AbortCycle(fd, f) ==
    [g \in Feeds |->
        IF g = f THEN FeedFailed
        ELSE IF fd[g].pc \in {"fetching", "entries"}
             THEN [fd[g] EXCEPT !.pc = "returned", !.ret = <<fd[g].count, fd[g].errors>>]
             ELSE fd[g]]

\* the Err arm of `match fetch_feed(&feed_url).await`: only this task ends
FetchErrArm(fd, f) == [fd EXCEPT ![f] = FeedFailed]

\* loop { ... tasks.push(async move { ... }) for every feed; at most `max`
\* cycles are followed
StartCycleWithin(max) ==
    /\ ~cycle.running
    /\ cycle.n < max
    /\ feed' = [f \in Feeds |-> [IdleFeed EXCEPT !.pc = "fetching"]]
    /\ cycle' = [cycle EXCEPT !.running = TRUE, !.n = @ + 1,
                              !.total_entries = 0, !.total_errors = 0,
                              !.started_at = clock]
    /\ UNCHANGED procVars
    /\ UNCHANGED validated

StartCycle == StartCycleWithin(MaxCycles)

\* fetch_feed(&feed_url).await returns
FetchFeed(f, res) ==
    /\ feed[f].pc = "fetching"
    /\ feed' =
        IF res.ok
        THEN [feed EXCEPT ![f] = [@ EXCEPT !.pc = "entries",
                                           !.feed_struct = res.parsed,
                                           !.count = Len(res.parsed.entries)]]
        ELSE FetchErrArm(feed, f)
    /\ UNCHANGED procVars
    /\ UNCHANGED <<cycle, validated>>

IndexMovedOn(idx) == idx + 1

\* `process_entry(&pool, &safe_item, browser).await` inside the for loop: the
\* loop stays at its entry until the call has returned
IndexDuringAwait(idx) == idx

\* the head of the entry loop: `let feed_item = entry_to_feed_item(..)`, the
\* match on sanitize_and_validate(&feed_item), and either the None arm or the
\* call of process_entry
NextEntry(f) ==
    /\ feed[f].pc = "entries"
    /\ Idle(f)
    /\ feed[f].idx <= Len(Entries(f))
    /\ \E feed_item \in {ItemAt(f)} :
       \E safe_item \in {ValidateEntry(feed_item)} :
       LET n == Len(Entries(f))
       IN  IF IsNone(safe_item)
           THEN /\ feed' = [feed EXCEPT
                        ![f].skipped = @ + 1,
                        ![f].validations = Append(@, feed[f].idx),
                        ![f].idx = NextIndex("skipped", @, n)]
                /\ UNCHANGED procVars
           ELSE /\ process_entry_call(f, Unwrap(safe_item))
                /\ feed' = [feed EXCEPT
                        ![f].validations = Append(@, feed[f].idx),
                        ![f].passed = Append(@, feed[f].idx),
                        ![f].idx = IndexDuringAwait(@)]
    /\ UNCHANGED <<cycle, validated>>

\* process_entry(...).await returns: the Ok and the Err arm
EntryDone(f) ==
    /\ feed[f].pc = "entries"
    /\ process_entry_return(f)
    /\ feed' = [feed EXCEPT
            ![f].success = IF task[f].result = "Ok" THEN @ + 1 ELSE @,
            ![f].errors = IF task[f].result = "Ok" THEN @ ELSE @ + 1,
            ![f].idx = NextIndex(task[f].result, @, Len(Entries(f)))]
    /\ UNCHANGED <<cycle, validated>>

\* the loop is over: the task returns (feed_name, fetch_duration, count, errors)
FinishFeed(f) ==
    /\ feed[f].pc = "entries"
    /\ Idle(f)
    /\ feed[f].idx > Len(Entries(f))
    /\ feed' = [feed EXCEPT ![f].pc = "returned",
                            ![f].ret = <<feed[f].count, feed[f].errors>>]
    /\ UNCHANGED procVars
    /\ UNCHANGED <<cycle, validated>>

\* while let Some((_, dur, count, errs)) = tasks.next().await
Aggregate(f) ==
    /\ feed[f].pc = "returned"
    /\ feed' = [feed EXCEPT ![f].pc = "joined"]
    /\ cycle' = [cycle EXCEPT !.total_entries = @ + feed[f].ret[1],
                              !.total_errors = @ + feed[f].ret[2]]
    /\ UNCHANGED procVars
    /\ UNCHANGED validated

SomeJoined(fd) == \E f \in Feeds : fd[f].pc = "joined"

NeverJoined(fd) == FALSE

\* `while let Some(..) = tasks.next().await` has ended: FuturesUnordered is
\* empty, every task of the cycle has returned and been taken
AllJoined(fd) == \A f \in Feeds : fd[f].pc = "joined"

\* every task is joined; ticker.tick().await returns at once when the tick
\* is due, else when it becomes due
EndCycle ==
    /\ cycle.running
    /\ AllJoined(feed)
    /\ clock' = IF clock >= cycle.next_tick THEN clock ELSE cycle.next_tick
    /\ cycle' = [cycle EXCEPT !.running = FALSE,
                              !.next_tick = @ + IngestInterval,
                              !.finished_at = Some(clock)]
    /\ UNCHANGED <<archive, current, task, faults, lastInvoke, hist>>
    /\ UNCHANGED <<feed, validated>>

\* main's loop; the existence check, the insert and the upsert may fail
NextFeed ==
    \/ StartCycle
    \/ \E f \in Feeds, res \in FetchFeedResults : FetchFeed(f, res)
    \/ \E f \in Feeds : NextEntry(f)
    \/ \E t \in Tasks : GetFailedFetchCount(t, TRUE)
    \/ \E t \in Tasks : GetLastFetchAttempt(t, TRUE)
    \/ \E t \in Tasks : UpdateLastFetchAttempt(t, TRUE)
    \/ \E t \in Tasks, res \in FetchResults : FetchAndClean(t, res)
    \/ \E t \in Tasks : ResetFailedFetchCount(t, TRUE)
    \/ \E t \in Tasks : IncrFailedFetchCount(t, TRUE)
    \/ \E t \in Tasks, ok \in BOOLEAN : ExistsCheck(t, ok)
    \/ \E t \in Tasks, ok \in BOOLEAN : InsertArchiveRow(t, ok)
    \/ \E t \in Tasks : InsertConflict(t)
    \/ \E t \in Tasks, ok \in BOOLEAN : UpsertCurrentRow(t, ok)
    \/ \E f \in Feeds : EntryDone(f)
    \/ \E f \in Feeds : FinishFeed(f)
    \/ \E f \in Feeds : Aggregate(f)
    \/ EndCycle

SpecFeed == Init /\ [][NextFeed]_vars

---------------------------------------------------------------------------
(* Several cycles of main's loop, over a small choice of feeds *)

MaxLightCycles == 3

\* what the feed at FeedUrl(f) serves: the first feed an entry that needs the
\* live fetch, the others a rejected entry and an entry that comes with its
\* body
LightFeed(f) ==
    IF f = FirstTask THEN FeedStruct(<<GoodBlank>>)
                     ELSE FeedStruct(<<BadLink, GoodBody>>)

LightFetchResults(f) == {FetchFeedErr, FetchFeedOk(LightFeed(f))}

\* time passes while a cycle runs: a slow fetch_feed
ElapseInCycle ==
    /\ cycle.running
    /\ Tick

\* the steps of the feed tasks and the end of a cycle
TaskSteps ==
    \/ \E f \in Feeds : \E res \in LightFetchResults(f) : FetchFeed(f, res)
    \/ \E f \in Feeds : NextEntry(f)
    \/ \E t \in Tasks : GetFailedFetchCount(t, TRUE)
    \/ \E t \in Tasks : GetLastFetchAttempt(t, TRUE)
    \/ \E t \in Tasks : UpdateLastFetchAttempt(t, TRUE)
    \/ \E t \in Tasks, res \in FetchResults : FetchAndClean(t, res)
    \/ \E t \in Tasks : ResetFailedFetchCount(t, TRUE)
    \/ \E t \in Tasks : IncrFailedFetchCount(t, TRUE)
    \/ \E t \in Tasks, ok \in BOOLEAN : ExistsCheck(t, ok)
    \/ \E t \in Tasks, ok \in BOOLEAN : InsertArchiveRow(t, ok)
    \/ \E t \in Tasks, ok \in BOOLEAN : UpsertCurrentRow(t, ok)
    \/ \E f \in Feeds : EntryDone(f)
    \/ \E f \in Feeds : FinishFeed(f)
    \/ \E f \in Feeds : Aggregate(f)
    \/ EndCycle

NextCycles ==
    \/ StartCycleWithin(MaxLightCycles)
    \/ TaskSteps
    \/ ElapseInCycle

SpecCycles == Init /\ [][NextCycles]_vars

MaxLiveCycles == 3

\* the steps of the loop and of its tasks
LoopSteps ==
    \/ StartCycleWithin(MaxLiveCycles)
    \/ TaskSteps

\* every fetch and every store call returns and every task is polled again:
\* a step of the loop that stays possible is taken
SpecLive == Init /\ [][LoopSteps]_vars /\ WF_vars(LoopSteps)

---------------------------------------------------------------------------
(* sanitize_and_validate on its own, applied to items at its limits *)

TitleInputs ==
    {EmptyText, <<SP>>, <<"t">>, <<SP, "t", SP>>, <<"<script>", "t">>,
     <<RunTitle, "a">>, <<RunTitle, "a", "a">>, <<SP, RunTitle, "a", SP>>,
     <<RunTitle, TwoByteChar>>}

SummaryInputs ==
    {None, Some(<<"s">>), Some(<<RunSummary, "a">>),
     Some(<<RunSummary, "a", "a">>), Some(<<SP, RunSummary, "a">>)}

ContentInputs ==
    {None, Some(<<SP>>), Some(<<RunContent, "a">>),
     Some(<<RunContent, "a", "a">>)}

LinkInputs ==
    {AbsLink("g1"), <<"/p">>, EmptyText, <<BadOrigin>>, <<"not a url">>}

ValidationItems ==
    {[NoItem EXCEPT !.guid = "g1", !.title = t, !.summary = s,
                    !.content = c, !.link = l] :
        t \in TitleInputs, s \in SummaryInputs, c \in ContentInputs,
        l \in LinkInputs}

InitValidate ==
    /\ InitProgram
    /\ validated \in {[pc |-> "input", item |-> i, out |-> None] :
                        i \in ValidationItems}

\* sanitize_and_validate(&item) is called and returns
Validate ==
    /\ validated.pc = "input"
    /\ validated' = [validated EXCEPT
            !.pc = "output",
            !.out = sanitize_and_validate(validated.item)]
    /\ UNCHANGED procVars
    /\ UNCHANGED <<feed, cycle>>

NextValidate == Validate

SpecValidate == InitValidate /\ [][NextValidate]_vars

---------------------------------------------------------------------------
(* entry_to_feed_item on its own, followed by sanitize_and_validate *)

EntryTitles == {None, Some(<<"t">>)}

EntryLinks == {<<>>, <<AbsLink("g1")>>, << <<"/p">> >>}

\* no content element, one without body, bodies empty, blank and with text
EntryContents ==
    {None, Some(Content(None)), Some(Content(Some(EmptyText))),
     Some(Content(Some(<<SP>>))), Some(Content(Some(<<"b">>)))}

EntrySummaries == {None, Some(EmptyText), Some(<<"s">>)}

NormalizeEntries ==
    {Entry("g1", t, l, c, m) :
        t \in EntryTitles, l \in EntryLinks, c \in EntryContents,
        m \in EntrySummaries}

InitNormalize ==
    /\ InitProgram
    /\ validated \in {[pc |-> "entry", entry |-> e, item |-> NoItem, out |-> None] :
                        e \in NormalizeEntries}

\* let feed_item = entry_to_feed_item(entry, &feed_struct, &feed_url)
Normalize ==
    /\ validated.pc = "entry"
    /\ validated' = [validated EXCEPT
            !.pc = "input",
            !.item = entry_to_feed_item(validated.entry,
                                        FeedStruct(<<validated.entry>>),
                                        FeedUrl(FirstTask))]
    /\ UNCHANGED procVars
    /\ UNCHANGED <<feed, cycle>>

NextNormalize ==
    \/ Normalize
    \/ Validate

SpecNormalize == InitNormalize /\ [][NextNormalize]_vars

---------------------------------------------------------------------------
(* Observations the claims are stated with *)

Busy(t) == task[t].pc # "idle"

Done(t) == task[t].pc = "done"

\* the call of task t has passed the fetcher (or the decision not to call it)
PastEnrichment(t) == task[t].pc \in {"exists", "insert", "upsert", "done"}

\* the fetch state the store holds for guid g
StoredCount(g) == get_failed_fetch_count(archive, g)

StoredLastAttempt(g) == get_last_fetch_attempt(archive, g)

\* the columns the INSERT INTO archive names
SnapshotColumns == ItemFields \cup {"full_content"}

Snapshot(rows) ==
    [i \in DOMAIN rows |-> [c \in SnapshotColumns |-> rows[i][c]]]

\* a current row that holds live-fetched text: the feed gave no content and
\* full_content is not blank
Enriched(row) == ContentBlank(row.content) /\ ~IsBlankText(row.full_content)

---------------------------------------------------------------------------
(* C1: a call of process_entry for a guid with blank content less than 24   *)
(* hours after a previous live fetch attempt for that guid does not call    *)
(* the live fetcher.  Stated of every call that has called the fetcher: no  *)
(* earlier attempt for the guid, or one at least 24 hours before.           *)
C1_NoRefetchWithinCooldown ==
    \A t \in Tasks :
        task[t].fetches > 0 =>
            \/ IsNone(task[t].prior_invoke)
            \/ task[t].now - Unwrap(task[t].prior_invoke) >= Cooldown

(* C2: for an entry with blank content and no prior attempt the call makes  *)
(* exactly one live fetch attempt, and the store holds last_fetch_attempt = *)
(* the attempt time from before the fetcher is invoked on.                  *)
C2_AttemptRecordedBeforeFetch ==
    \A t \in Tasks :
        (/\ Busy(t)
         /\ ContentBlank(task[t].item.content)
         /\ IsNone(task[t].prior_invoke)) =>
            /\ task[t].pc = "fetch" =>
                /\ task[t].fetches = 0
                /\ StoredLastAttempt(Guid(t)) = Some(task[t].now)
            /\ (PastEnrichment(t) \/ task[t].pc \in {"reset_count", "incr_count"}) =>
                /\ task[t].fetches = 1
                /\ StoredLastAttempt(Guid(t)) = Some(task[t].now)

(* C3: a call whose item has non-blank content (after trimming) never calls *)
(* the live fetcher and issues no write of last_fetch_attempt or            *)
(* failed_fetch_count, whatever fetch state the store holds.                *)
C3_NonBlankNeverFetches ==
    \A t \in Tasks :
        (Busy(t) /\ ~ContentBlank(task[t].item.content)) =>
            /\ task[t].fetches = 0
            /\ task[t].state_writes = 0
            /\ lastInvoke[Guid(t)] = task[t].prior_invoke

\* a call with a body has finished for a guid whose stored attempt is older
\* than the cooldown
C3_Witness ==
    \E t \in Tasks :
        /\ Done(t)
        /\ ~ContentBlank(task[t].item.content)
        /\ ~IsNone(task[t].last_attempt_opt)
        /\ task[t].now - Unwrap(task[t].last_attempt_opt) > Cooldown
        /\ task[t].failed_count > 0

(* C4: a call for a guid with blank content whose stored last_fetch_attempt *)
(* is more than 24 hours old makes exactly one live fetch attempt, whatever *)
(* the stored failed_fetch_count is.                                        *)
C4_OneAttemptAfterCooldown ==
    \A t \in Tasks :
        (/\ ContentBlank(task[t].item.content)
         /\ ~IsNone(task[t].last_attempt_opt)
         /\ task[t].now - Unwrap(task[t].last_attempt_opt) > Cooldown) =>
            /\ task[t].pc \in {"update_last", "fetch"} => task[t].fetches = 0
            /\ task[t].pc \in {"reset_count", "incr_count"} => task[t].fetches = 1
            /\ PastEnrichment(t) => task[t].fetches = 1

\* such a call has finished for a guid that had failed twice before
C4_Witness ==
    \E t \in Tasks :
        /\ Done(t)
        /\ ContentBlank(task[t].item.content)
        /\ ~IsNone(task[t].last_attempt_opt)
        /\ task[t].now - Unwrap(task[t].last_attempt_opt) > Cooldown
        /\ task[t].failed_count > 1
        /\ task[t].fetches = 1

(* C5: with cycles one after the other the archive holds at most one row    *)
(* per guid, exactly one once a call for the guid has finished: the call    *)
(* that sees the guid first inserts the row, every later call skips the     *)
(* insert.                                                                  *)
C5_OneArchiveRowPerGuid ==
    /\ \A g \in Guids : Len(archive[g]) <= 1
    /\ \A t \in Tasks :
        Done(t) =>
            /\ Len(archive[Guid(t)]) = 1
            /\ task[t].inserted <=> IsNone(task[t].prior_current)

\* a later call for a guid already archived has finished without inserting
C5_Witness ==
    \E t \in Tasks :
        /\ Done(t)
        /\ ~IsNone(task[t].prior_current)
        /\ ~task[t].inserted
        /\ Len(archive[Guid(t)]) = 1
        /\ Unwrap(current[Guid(t)]).title # archive[Guid(t)][1].title

(* C6: while the live fetcher has failed or returned blank in every one of  *)
(* n calls for a guid with blank content, the calls more than 24 hours      *)
(* apart, failed_fetch_count of the guid is n after the n-th call and the   *)
(* current row's full_content is the blank feed content.                    *)
C6_FailedCountEqualsCycles ==
    Sequential =>
        \A g \in Guids :
            (hist[g].ok /\ hist[g].n > 0) =>
                /\ StoredCount(g) = hist[g].n
                /\ ~IsNone(current[g])
                /\ Unwrap(current[g]).full_content
                       = UnwrapOrDefault(Unwrap(current[g]).content)

(* C7: after a cycle that stored live-fetched text as full_content, a call  *)
(* with the same unchanged entry inside the cooldown window, which makes no *)
(* fetch, leaves the current row's full_content the enriched text.          *)
C7_EnrichedContentKept ==
    \A t \in Tasks :
        (/\ Done(t)
         /\ task[t].result = "Ok"
         /\ task[t].fetches = 0
         /\ ~IsNone(task[t].prior_current)
         /\ ~IsNone(task[t].prior_invoke)
         /\ task[t].now - Unwrap(task[t].prior_invoke) <= Cooldown) =>
            LET prior == Unwrap(task[t].prior_current) IN
            (/\ Enriched(prior)
             /\ NewCurrentRow(task[t].item, prior.full_content) = prior) =>
                Unwrap(current[Guid(t)]).full_content = prior.full_content

(* C8: after a call that returns Ok the current row of the guid equals, in  *)
(* every column, the values of that call: the item's fields and the content *)
(* the call resolved; nothing of the previous row is left.                  *)
C8_CurrentReflectsCall ==
    \A t \in Tasks :
        (Done(t) /\ task[t].result = "Ok") =>
            current[Guid(t)]
                = Some(NewCurrentRow(task[t].item, task[t].fetched_content))

\* an Ok call has overwritten a row that differed in title and full_content
C8_Witness ==
    \E t \in Tasks :
        /\ Done(t)
        /\ task[t].result = "Ok"
        /\ ~IsNone(task[t].prior_current)
        /\ Unwrap(task[t].prior_current).title # task[t].item.title
        /\ Unwrap(task[t].prior_current).full_content # task[t].fetched_content

(* C9: the current upsert is executed in every call that gets past the      *)
(* archive step, whether the archive row was absent and inserted or already *)
(* present; a call returns Ok only after it.                                *)
C9_UpsertUnconditional ==
    \A t \in Tasks :
        Done(t) =>
            /\ (task[t].exists \/ task[t].inserted) => task[t].upsert_executed
            /\ task[t].result = "Ok" => task[t].upsert_executed
            /\ task[t].result \in {"Ok", "Err"}

\* a call that found the archive row present has executed the upsert
C9_Witness ==
    \E t \in Tasks :
        /\ Done(t)
        /\ task[t].exists
        /\ ~task[t].inserted
        /\ task[t].upsert_executed
        /\ task[t].result = "Ok"

C11_SuccessResetsCount ==
    \A t \in Tasks :
        (Done(t) /\ task[t].fetch_ok) =>
            /\ StoredCount(Guid(t)) = 0
            /\ ~IsBlankText(task[t].fetched_content)
            /\ Unwrap(current[Guid(t)]).full_content = task[t].fetched_content
            /\ task[t].inserted =>
                   archive[Guid(t)][1].full_content = task[t].fetched_content

\* a successful fetch has ended a call for a guid whose count was positive
C11_Witness ==
    \E t \in Tasks :
        /\ Done(t)
        /\ task[t].fetch_ok
        /\ task[t].failed_count > 0
        /\ StoredCount(Guid(t)) = 0

(* C12: when the live fetch fails or returns blank text, the stored         *)
(* failed_fetch_count of the guid is its previous value plus one after the  *)
(* call, and the entry is persisted with full_content = the feed content    *)
(* (empty when absent).                                                     *)
C12_FailureIncrementsCount ==
    \A t \in Tasks :
        (Done(t) /\ task[t].fetches = 1 /\ ~task[t].fetch_ok) =>
            /\ StoredCount(Guid(t)) = task[t].failed_count + 1
            /\ task[t].result = "Ok"
            /\ ~IsNone(current[Guid(t)])
            /\ Unwrap(current[Guid(t)]).full_content
                   = UnwrapOrDefault(task[t].item.content)

(* C13: an error of a fetch-state read or write is not fatal to the call:   *)
(* a failed read counts as count 0 and no timestamp, and a call in which    *)
(* only fetch-state calls failed still inserts or finds the archive row,    *)
(* executes the current upsert and returns Ok.                              *)
C13_FetchStateFailuresNonFatal ==
    \A t \in Tasks :
        /\ ("get_count" \in task[t].failed_calls) => task[t].failed_count = 0
        /\ ("get_last" \in task[t].failed_calls) => IsNone(task[t].last_attempt_opt)
        /\ (Busy(t) /\ task[t].failed_calls \subseteq FetchStateCalls) =>
               task[t].result # "Err"
        /\ (Done(t) /\ task[t].failed_calls \subseteq FetchStateCalls) =>
               /\ task[t].result = "Ok"
               /\ task[t].exists \/ task[t].inserted
               /\ Len(archive[Guid(t)]) = 1
               /\ current[Guid(t)]
                      = Some(NewCurrentRow(task[t].item, task[t].fetched_content))

\* a call has returned Ok although a write of its fetch state failed
C13_Witness ==
    \E t \in Tasks :
        /\ Done(t)
        /\ task[t].result = "Ok"
        /\ task[t].failed_calls \cap {"update_last", "reset_count", "incr_count"} # {}
        /\ task[t].fetches = 1

(* C16: after a crash between the archive insert and the current upsert     *)
(* (the archive row is there, the current row is not), the next call for    *)
(* the guid heals the state: it inserts no second archive row, and after it *)
(* the current row exists with that call's values.                          *)
C16_NextCycleHeals ==
    /\ \A g \in Guids : Len(archive[g]) <= 1
    /\ \A t \in Tasks :
        (Done(t) /\ IsNone(task[t].prior_current) /\ task[t].exists) =>
            /\ task[t].result = "Ok"
            /\ ~task[t].inserted
            /\ Len(archive[Guid(t)]) = 1
            /\ current[Guid(t)]
                   = Some(NewCurrentRow(task[t].item, task[t].fetched_content))

\* a call that found the archive row without a current row has finished, with
\* other values than the archived ones
C16_Witness ==
    \E t \in Tasks :
        /\ Done(t)
        /\ IsNone(task[t].prior_current)
        /\ task[t].exists
        /\ ~IsNone(current[Guid(t)])
        /\ archive[Guid(t)][1].title # task[t].item.title

(* C14: when two feed tasks process entries with the same blank-content     *)
(* guid concurrently, the live fetcher is called at most once for the guid  *)
(* within one cooldown window, under every interleaving.  Stated of two     *)
(* calls in flight together for a guid that was archived when each began.   *)
C14_ConcurrentFetchOnce ==
    \A t, u \in Tasks :
        (/\ t # u
         /\ Busy(t) /\ Busy(u)
         /\ Guid(t) = Guid(u)
         /\ ~IsNone(task[t].prior_current)
         /\ ~IsNone(task[u].prior_current)
         /\ task[t].now - task[u].now <= Cooldown
         /\ task[u].now - task[t].now <= Cooldown) =>
            ~(task[t].fetches > 0 /\ task[u].fetches > 0)

(* C15: when two feed tasks process entries with the same new guid          *)
(* concurrently, under every interleaving the archive ends with exactly one *)
(* row for the guid, both calls return Ok, and the current row holds the    *)
(* values of one of the two calls.                                          *)
C15_ConcurrentInsertOnce ==
    \A t, u \in Tasks :
        (/\ t # u
         /\ Done(t) /\ Done(u)
         /\ Guid(t) = Guid(u)
         /\ IsNone(task[t].prior_current)
         /\ IsNone(task[u].prior_current)) =>
            /\ Len(archive[Guid(t)]) = 1
            /\ task[t].result = "Ok"
            /\ task[u].result = "Ok"
            /\ current[Guid(t)] \in
                   {Some(NewCurrentRow(task[t].item, task[t].fetched_content)),
                    Some(NewCurrentRow(task[u].item, task[u].fetched_content))}

---------------------------------------------------------------------------
(* Observations of main's loop *)

\* the task of feed f has returned
Returned(f) == feed[f].pc \in {"returned", "joined"}

\* sanitize_and_validate accepts the item of entry i of feed f
ValidAt(f, i) ==
    ~IsNone(sanitize_and_validate(
        entry_to_feed_item(Entries(f)[i], feed[f].feed_struct, FeedUrl(f))))

\* the positions 1 .. n, in order
Positions(n) == [i \in 1 .. n |-> i]

\* every entry of feed f has been validated once, in order, and the valid
\* ones and no others have been given to process_entry
AllEntriesHandled(f) ==
    /\ feed[f].validations = Positions(Len(Entries(f)))
    /\ feed[f].passed =
           SelectSeq(Positions(Len(Entries(f))), LAMBDA i : ValidAt(f, i))

(* C17: a validation rejection or a persistence error on one entry does not *)
(* stop the feed: when the task of a fetched feed returns, each of its      *)
(* entries has been normalized and validated exactly once and every valid   *)
(* entry has been passed to process_entry, whatever became of the entries   *)
(* before it.                                                               *)
C17_EveryEntryHandled ==
    \A f \in Feeds :
        (Returned(f) /\ ~feed[f].fetch_failed) => AllEntriesHandled(f)

\* a feed whose entries ended one rejected, one with a persistence error and
\* one stored
C17_Witness ==
    \E f \in Feeds :
        /\ Returned(f)
        /\ feed[f].skipped > 0
        /\ feed[f].errors > 0
        /\ feed[f].success > 0

(* C18: the failure of one feed's fetch is isolated: the task of the failed *)
(* feed validates nothing and calls process_entry for nothing, so it writes *)
(* nothing, and when the cycle's tasks are all joined every other feed has  *)
(* been fetched and, if its fetch succeeded, its entries processed.         *)
C18_FeedFailureIsolated ==
    \A f \in Feeds :
        feed[f].fetch_failed =>
            /\ feed[f].validations = <<>>
            /\ feed[f].passed = <<>>
            /\ Idle(f)
            /\ (\A g \in Feeds : feed[g].pc = "joined") =>
                   \A g \in Feeds \ {f} :
                       feed[g].fetch_failed \/ AllEntriesHandled(g)

\* a joined cycle in which one feed failed and another stored an entry
C18_Witness ==
    /\ \A g \in Feeds : feed[g].pc = "joined"
    /\ \E f, g \in Feeds :
        /\ feed[f].fetch_failed
        /\ ~feed[g].fetch_failed
        /\ feed[g].success > 0

(* C19: an entry that sanitize_and_validate rejects has no effect on the    *)
(* store: the step in which the loop of a feed leaves such an entry behind  *)
(* changes no archive row, no current row and no fetch state and calls no   *)
(* fetcher, and no call of process_entry was open for it.                   *)
C19_RejectedNoEffect ==
    [][\A f \in Feeds :
          (/\ feed[f].pc = "entries"
           /\ feed[f].idx <= Len(Entries(f))
           /\ feed'[f].idx > feed[f].idx
           /\ IsNone(sanitize_and_validate(ItemAt(f)))) =>
              /\ Idle(f)
              /\ UNCHANGED <<archive, current, task, lastInvoke, faults>>]_vars

\* a rejected entry has been left behind and the store holds nothing of its guid
C19_Witness ==
    \E f \in Feeds :
        /\ feed[f].pc = "entries"
        /\ feed[f].idx > 1
        /\ ~ValidAt(f, feed[f].idx - 1)
        /\ feed[f].skipped > 0
        /\ archive[Entries(f)[feed[f].idx - 1].id] = <<>>
        /\ IsNone(current[Entries(f)[feed[f].idx - 1].id])
        /\ IsNone(lastInvoke[Entries(f)[feed[f].idx - 1].id])

(* C20: sanitize_and_validate returns None exactly when the trimmed title   *)
(* is empty or longer than 1024 characters, or a present summary is longer  *)
(* than 200,000 characters after trimming, or a present content is longer   *)
(* than 500,000 characters after trimming, or the link is not an absolute   *)
(* URL; otherwise it returns Some item with the guid, the link and the      *)
(* provenance fields of its argument.                                       *)
C20_NoneExactlyWhen ==
    validated.pc = "output" =>
        LET item == validated.item
            out == validated.out
            title == Trim(item.title)
            summary == TrimOption(item.summary)
            content == TrimOption(item.content)
            reject ==
                \/ CharCount(title) = 0
                \/ CharCount(title) > MaxTitleLen
                \/ (~IsNone(summary) /\ CharCount(Unwrap(summary)) > MaxSummaryLen)
                \/ (~IsNone(content) /\ CharCount(Unwrap(content)) > MaxContentLen)
                \/ ~UrlParseOk(item.link)
        IN  /\ IsNone(out) <=> reject
            /\ ~IsNone(out) =>
                   \A c \in ItemFields \ {"title", "summary", "content"} :
                       Unwrap(out)[c] = item[c]

---------------------------------------------------------------------------
(* C27: when the archive existence check or the archive insert fails,       *)
(* process_entry returns the error without executing the current upsert:    *)
(* the current row of the guid is as it was when the call began; the live   *)
(* fetch of the call stays recorded and the fetch-state writes it made to   *)
(* the guid's archive row stay in the row.                                  *)
C27_ErrBeforeUpsert ==
    \A t \in Tasks :
        (Done(t) /\ task[t].failed_calls \cap {"exists", "insert"} # {}) =>
            /\ task[t].result = "Err"
            /\ ~task[t].upsert_executed
            /\ current[Guid(t)] = task[t].prior_current
            /\ task[t].fetches > 0 => lastInvoke[Guid(t)] = Some(task[t].now)
            /\ (/\ task[t].fetches > 0
                /\ archive[Guid(t)] # <<>>
                /\ "update_last" \notin task[t].failed_calls) =>
                   StoredLastAttempt(Guid(t)) = Some(task[t].now)
            /\ (/\ task[t].fetches > 0
                /\ archive[Guid(t)] # <<>>
                /\ task[t].failed_calls \cap {"reset_count", "incr_count"} = {}) =>
                   StoredCount(Guid(t)) =
                       IF task[t].fetch_ok THEN 0 ELSE task[t].failed_count + 1

\* the existence check failed after a live fetch whose fetch-state writes
\* reached the archive row of a guid that has a current row
C27_Witness ==
    \E t \in Tasks :
        /\ Done(t)
        /\ "exists" \in task[t].failed_calls
        /\ task[t].fetches > 0
        /\ ~task[t].fetch_ok
        /\ archive[Guid(t)] # <<>>
        /\ StoredCount(Guid(t)) > 0
        /\ ~IsNone(current[Guid(t)])

---------------------------------------------------------------------------
(* C28: in every reachable state, also after a crash or a failed write in   *)
(* the middle of process_entry, every guid that has a row in current has a  *)
(* row in archive.                                                          *)
C28_CurrentImpliesArchive ==
    \A g \in Guids : ~IsNone(current[g]) => archive[g] # <<>>

\* between calls, one guid is in both tables and another one was left with
\* its archive row only
C28_Witness ==
    /\ Sequential
    /\ \E g, h \in Guids :
        /\ ~IsNone(current[g])
        /\ archive[g] # <<>>
        /\ archive[h] # <<>>
        /\ IsNone(current[h])

---------------------------------------------------------------------------
(* C29: process_entry for a guid g leaves the archive rows (fetch state     *)
(* included) and the current row of every other guid unchanged, whether it  *)
(* succeeds or fails: a step changes the rows of a guid only when a call    *)
(* for that guid is open.                                                   *)
C29_OtherGuidsUnchanged ==
    [][\A g \in Guids :
          (archive'[g] # archive[g] \/ current'[g] # current[g]) =>
              \E t \in Tasks : Busy(t) /\ Guid(t) = g]_vars

\* a call has written the fetch state of its guid while another guid has
\* rows, whose fetch state is still the initial one
C29_Witness ==
    \E t \in Tasks, h \in Guids :
        /\ Done(t)
        /\ h # Guid(t)
        /\ task[t].state_writes > 0
        /\ StoredCount(Guid(t)) > 0
        /\ archive[h] # <<>>
        /\ ~IsNone(current[h])
        /\ StoredCount(h) = 0

---------------------------------------------------------------------------
(* C23: no sequence of cycles sets the disabled flag of a guid, however     *)
(* large failed_fetch_count becomes, and enrichment goes on being attempted *)
(* after each cooldown: a call for blank content whose last recorded        *)
(* attempt is absent or more than 24 hours old decides to fetch, whatever   *)
(* the count it read.                                                       *)
C23_NeverDisabled ==
    /\ \A g \in Guids : \A i \in DOMAIN archive[g] : ~archive[g][i].disabled
    /\ \A t \in Tasks :
        (/\ task[t].pc \notin {"idle", "get_count", "get_last"}
         /\ ContentBlank(task[t].item.content)
         /\ \/ IsNone(task[t].last_attempt_opt)
            \/ task[t].now - Unwrap(task[t].last_attempt_opt) > Cooldown) =>
                /\ task[t].should_fetch_live
                /\ task[t].pc \in {"update_last", "fetch"} \/ task[t].fetches > 0

\* the fetcher is called for a guid whose stored count is 2 or more and
\* whose row is not disabled
C23_Witness ==
    \E t \in Tasks :
        /\ task[t].fetches > 0
        /\ task[t].failed_count >= 2
        /\ archive[Guid(t)] # <<>>
        /\ ~archive[Guid(t)][1].disabled
        /\ ~IsNone(task[t].last_attempt_opt)

---------------------------------------------------------------------------
(* C24: the normalizer sets FeedItem.content by precedence: the entry's     *)
(* body when present and non-empty, otherwise the entry's summary when      *)
(* present, otherwise absent; so a valid entry with a non-blank summary and *)
(* no body is not fetched live on account of blank content.                 *)
C24_ContentPrecedence ==
    validated.pc \in {"input", "output"} =>
        LET entry == validated.entry
            body == IF IsNone(entry.content) THEN None
                    ELSE Unwrap(entry.content).body
            expected ==
                IF ~IsNone(body) /\ Unwrap(body) # EmptyText THEN body
                ELSE IF ~IsNone(entry.summary) THEN entry.summary
                ELSE None
        IN  /\ validated.item.content = expected
            /\ (/\ validated.pc = "output"
                /\ ~IsNone(validated.out)
                /\ IsNone(body)
                /\ ~IsNone(entry.summary)
                /\ ~IsBlankText(Unwrap(entry.summary))) =>
                   ~ShouldFetchLive(Unwrap(validated.out), None, 0)

---------------------------------------------------------------------------
(* C25: within one feed task the entries are processed one after the other  *)
(* in feed order: the positions given to process_entry increase, a call     *)
(* begins only when every earlier call of the task has returned, and while  *)
(* a call is open the loop stands at its entry; the task has at most one    *)
(* call, hence one store or fetcher interaction, in flight.                 *)
C25_EntriesSequential ==
    \A f \in Feeds :
        feed[f].pc \in {"entries", "returned", "joined"} =>
            /\ \A i, j \in DOMAIN feed[f].passed :
                   i < j => feed[f].passed[i] < feed[f].passed[j]
            /\ Len(feed[f].passed) =
                   feed[f].success + feed[f].errors + (IF Busy(f) THEN 1 ELSE 0)
            /\ Busy(f) =>
                   /\ feed[f].pc = "entries"
                   /\ feed[f].passed # <<>>
                   /\ feed[f].passed[Len(feed[f].passed)] = feed[f].idx
                   /\ Guid(f) = Entries(f)[feed[f].idx].id

\* the second call of a feed task is open, the first has returned and an
\* entry between them was skipped
C25_Witness ==
    \E f \in Feeds :
        /\ Busy(f)
        /\ ~Done(f)
        /\ Len(feed[f].passed) = 2
        /\ feed[f].success + feed[f].errors = 1
        /\ feed[f].skipped = 1

---------------------------------------------------------------------------
\* the entries of the fetched feeds among S
RECURSIVE EntriesOfFetched(_)
EntriesOfFetched(S) ==
    IF S = {} THEN 0
    ELSE LET f == CHOOSE x \in S : TRUE
         IN  (IF feed[f].fetch_failed THEN 0 ELSE Len(Entries(f)))
                 + EntriesOfFetched(S \ {f})

\* the persistence errors of the fetched feeds among S, and one for every
\* feed whose fetch failed
RECURSIVE ErrorsOf(_)
ErrorsOf(S) ==
    IF S = {} THEN 0
    ELSE LET f == CHOOSE x \in S : TRUE
         IN  (IF feed[f].fetch_failed THEN 1 ELSE feed[f].errors)
                 + ErrorsOf(S \ {f})

(* C26: each entry of a fetched feed is counted in exactly one of success,  *)
(* skipped and errors: when the task returns the three add up to the number *)
(* of entries, skipped being the rejected entries and success + errors the  *)
(* calls of process_entry.  When all tasks are joined the cycle's total of  *)
(* entries is the sum of the entry counts of the fetched feeds, and its     *)
(* total of errors the persistence errors plus one per failed feed.         *)
C26_CountsAddUp ==
    /\ \A f \in Feeds :
        (Returned(f) /\ ~feed[f].fetch_failed) =>
            /\ feed[f].success + feed[f].skipped + feed[f].errors
                   = Len(Entries(f))
            /\ feed[f].skipped = Len(feed[f].validations) - Len(feed[f].passed)
            /\ feed[f].success + feed[f].errors = Len(feed[f].passed)
            /\ feed[f].ret = <<Len(Entries(f)), feed[f].errors>>
    /\ (\A f \in Feeds : feed[f].pc = "joined") =>
            /\ cycle.total_entries = EntriesOfFetched(Feeds)
            /\ cycle.total_errors = ErrorsOf(Feeds)

\* a joined cycle with a failed feed and a feed that had a stored, a
\* rejected and a failed entry
C26_Witness ==
    /\ \A f \in Feeds : feed[f].pc = "joined"
    /\ \E f, g \in Feeds :
        /\ feed[f].fetch_failed
        /\ feed[g].success > 0
        /\ feed[g].skipped > 0
        /\ feed[g].errors > 0
        /\ cycle.total_errors = 2
        /\ cycle.total_entries = 3

---------------------------------------------------------------------------
(* The loop of main: the wait between cycles, overlap, progress *)

\* no task of a cycle is in flight: FuturesUnordered is empty or drained and
\* no process_entry call is open
NoTaskInFlight ==
    \A f \in Feeds : feed[f].pc \in {"idle", "joined"} /\ Idle(f)

\* C21: after finishing a cycle the orchestrator waits for one configured
\* ingest interval before starting the next cycle: when a cycle other than
\* the first has started, at least IngestInterval has passed since the
\* previous cycle was complete.  This holds for every pair of consecutive
\* cycles, the first and the second included, and after a cycle that ran
\* longer than the interval.
C21_WaitsOneInterval ==
    (cycle.running /\ cycle.n >= 2)
        => cycle.started_at - cycle.finished_at[1] >= IngestInterval

\* C22: cycles never overlap: while no cycle runs no task is in flight, and a
\* new cycle begins (cycle.n changes) only in a state where every feed task
\* of the previous cycle has completed and been joined.
C22_CyclesNeverOverlap ==
    [][ /\ (~cycle.running => NoTaskInFlight)
        /\ (cycle'.n # cycle.n => NoTaskInFlight) ]_vars

\* a later cycle has a process_entry call in flight while the other feed task
\* of that cycle has already been joined
C22_Witness ==
    /\ cycle.running
    /\ cycle.n >= 2
    /\ \E f \in Feeds : feed[f].pc = "entries" /\ Busy(f)
    /\ \E f \in Feeds : feed[f].pc = "joined"

\* C30: when every feed fetch, live fetch and store call returns (weak
\* fairness of the steps of the loop and its tasks), every cycle that runs
\* is eventually complete (all tasks joined, totals aggregated), and after a
\* complete cycle the next cycle eventually starts, whatever fetches,
\* validations and store calls fail.
C30_CyclesComplete ==
    /\ cycle.running ~> ~cycle.running
    /\ (~cycle.running /\ cycle.n < MaxLiveCycles) ~> cycle.running

\* a later cycle is complete although one feed could not be fetched and the
\* other had a rejected entry and a persistence error
C30_Witness ==
    /\ ~cycle.running
    /\ cycle.n >= 2
    /\ \E f \in Feeds : feed[f].fetch_failed
    /\ \E f \in Feeds : feed[f].skipped > 0 /\ feed[f].errors > 0

=============================================================================
